---- MODULE Spec2Model ----
(***************************************************************************)
(* A model of the BMP codec of crate `two` (src/two/src/lib.rs and         *)
(* src/two/src/decoder.rs): the decoder as a staged state machine over a   *)
(* byte cursor, the Image type with its pixel accessors, the BitIndex      *)
(* bit-unpacking iterator, and the 24bpp encoder.                          *)
(*                                                                         *)
(* Numbers are mathematical integers.  The u32 sums and products of the   *)
(* code (file_size!, BmpHeader::new, Image::new, read_pixels) and the      *)
(* subtraction BITS - nbits of bit_index are modelled with both outcomes   *)
(* a build can produce: a panic when overflow checks are on (checked),     *)
(* the wrapped value when they are off.  The f32 arithmetic of file_size!  *)
(* rounds as f32 does.  The inputs enumerated here keep every unsigned     *)
(* 32-bit field below 2^31.                                                *)
(***************************************************************************)
EXTENDS Integers, Sequences, FiniteSets, TLC

\* ------------------------------------------------------------------ bounds
MaxW == 3
MaxH == 2
MaxCut == 2
MaxSets == 2
MaxBitBytes == 2
MaxBitSize == 9
MaxBitCalls == 11
MaxCoordW == 5
MaxCoordH == 4
MaxExtraCalls == 2
MaxEditW == 3
MaxEditH == 2

\* ------------------------------------------------------- program constants
BMP_HEADER_SIZE == 14
BITS == 8

\* ------------------------------------------------------------ arithmetic
Pow2(n) == IF n = 0 THEN 1 ELSE IF n = 1 THEN 2 ELSE IF n = 2 THEN 4
           ELSE IF n = 3 THEN 8 ELSE IF n = 4 THEN 16 ELSE IF n = 5 THEN 32
           ELSE IF n = 6 THEN 64 ELSE IF n = 7 THEN 128 ELSE 256

Min(a, b) == IF a < b THEN a ELSE b

\* i32::unsigned_abs
unsigned_abs(v) == IF v < 0 THEN -v ELSE v

\* the two 16-bit halves of a 32-bit value
Lo16(a) == a % 65536
Hi16(a) == a \div 65536

\* u32 + u32: whether the sum exceeds u32, and the sum modulo 2^32
AddU32Ovf(a, b) == Hi16(a) + Hi16(b) + Hi16(Lo16(a) + Lo16(b)) >= 65536
AddU32(a, b) ==
    Lo16(Hi16(a) + Hi16(b) + Hi16(Lo16(a) + Lo16(b))) * 65536
    + Lo16(Lo16(a) + Lo16(b))

\* u32 * u32 on 16-bit halves.  With a = ah * 2^16 + al and b = bh * 2^16 + bl,
\* a * b = ah * bh * 2^32 + (ah * bl + al * bh) * 2^16 + al * bl.
\* MulLowCarry and MulLowLow are the two halves of al * bl
MulLowCarry(a, b) ==
    (Lo16(a) * (Lo16(b) \div 256) + ((Lo16(a) * (Lo16(b) % 256)) \div 256)) \div 256
MulLowLow(a, b) ==
    ((Lo16(a) * (Lo16(b) \div 256) + ((Lo16(a) * (Lo16(b) % 256)) \div 256)) % 256) * 256
    + ((Lo16(a) * (Lo16(b) % 256)) % 256)
MulCross(a, b) ==
    Lo16(Hi16(a) * Lo16(b)) + Lo16(Lo16(a) * Hi16(b)) + MulLowCarry(a, b)
\* whether the product exceeds u32, and the product modulo 2^32
MulU32Ovf(a, b) ==
    \/ Hi16(a) * Hi16(b) > 0
    \/ Hi16(Hi16(a) * Lo16(b)) + Hi16(Lo16(a) * Hi16(b)) + Hi16(MulCross(a, b)) > 0
MulU32(a, b) == Lo16(MulCross(a, b)) * 65536 + MulLowLow(a, b)

\* `v as i32` of a u32 and `v as u32` of an i32: the same 32 bits
AsI32(v) == IF Hi16(v) < 32768 THEN v ELSE (Hi16(v) - 65536) * 65536 + Lo16(v)
AsU32(v) == IF v >= 0 THEN v ELSE (Hi16(v) + 65536) * 65536 + Lo16(v)

\* the spacing of the f32 values around n >= 0: the least power of two u with
\* n < 2^24 * u
RECURSIVE F32Ulp(_, _)
F32Ulp(n, u) == IF n \div u < 16777216 THEN u ELSE F32Ulp(n, 2 * u)

\* an integer n >= 0 rounded to f32: to the nearest value, ties to the even one
F32Abs(n) ==
    LET u == F32Ulp(n, 1)
        q == n \div u
        r == n % u
    IN  IF 2 * r < u \/ (2 * r = u /\ q % 2 = 0) THEN q * u ELSE (q + 1) * u

\* `n as f32`, and the rounding of an f32 sum or product with exact value n
F32(n) == IF n < 0 THEN -F32Abs(-n) ELSE F32Abs(n)

\* `x as u32` of a float with integer value x: saturating
SatU32(x) ==
    IF x < 0 THEN 0
    ELSE IF Hi16(x) >= 65536 THEN 65535 * 65536 + 65535
    ELSE x

\* u8 shifts and bitwise-and on 8-bit values
Shr8(v, k) == v \div Pow2(k)
Shl8(v, k) == (v * Pow2(k)) % 256
\* bitwise and of two n-bit values
RECURSIVE BitAnd(_, _, _)
BitAnd(a, b, n) ==
    IF n = 0 THEN 0
    ELSE (a % 2) * (b % 2) + 2 * BitAnd(a \div 2, b \div 2, n - 1)

\* ------------------------------------------------------------ byte codec
\* little-endian encodings, as the byteorder crate writes them
U16Bytes(v) == << v % 256, (v \div 256) % 256 >>
U32Bytes(v) == << v % 256, (v \div 256) % 256, (v \div 65536) % 256,
                  (v \div 16777216) % 256 >>
I32Bytes(v) == IF v >= 0 THEN U32Bytes(v)
               ELSE LET c == -(v + 1)
                    IN  << 255 - (c % 256), 255 - ((c \div 256) % 256),
                           255 - ((c \div 65536) % 256),
                           255 - ((c \div 16777216) % 256) >>

\* little-endian decodings at 0-based offset p of d (p + n <= Len(d))
U16At(d, p) == d[p + 1] + 256 * d[p + 2]
U32At(d, p) == d[p + 1] + 256 * d[p + 2] + 65536 * d[p + 3] + 16777216 * d[p + 4]
I32At(d, p) == IF d[p + 4] < 128 THEN U32At(d, p)
               ELSE -((255 - d[p + 1]) + 256 * (255 - d[p + 2])
                      + 65536 * (255 - d[p + 3]) + 16777216 * (255 - d[p + 4])) - 1

RECURSIVE Flatten(_)
Flatten(ss) == IF ss = << >> THEN << >> ELSE Head(ss) \o Flatten(Tail(ss))

\* ------------------------------------------------------------------ types
\* px!(r, g, b)
px(r, g, b) == [r |-> r % 256, g |-> g % 256, b |-> b % 256]

\* Option<Vec<Pixel>> and Option<usize>
None == [some |-> FALSE, val |-> << >>]
NoIndex == [some |-> FALSE, val |-> 0]
Some(v) == [some |-> TRUE, val |-> v]

NoHeader == [file_size |-> 0, creator1 |-> 0, creator2 |-> 0, pixel_offset |-> 0]
NoDib == [header_size |-> 0, width |-> 0, height |-> 0, num_planes |-> 0,
          bits_per_pixel |-> 0, compress_type |-> 0, data_size |-> 0,
          hres |-> 0, vres |-> 0, num_colors |-> 0, num_imp_colors |-> 0]
NoImage == [header |-> NoHeader, dib_header |-> NoDib, color_palette |-> None,
            width |-> 0, height |-> 0, padding |-> 0, data |-> << >>]

\* file_size!(bpp, width, height): (head_size, height * row_size), with
\* row_size = ((bpp as f32 * width as f32 + 31.0) / 32.0).floor() as u32 * 4
file_size(bpp, width, height, checked) ==
    LET rows == SatU32(F32(F32(bpp * F32(width)) + 31) \div 32)
    IN  IF checked /\ (\/ MulU32Ovf(rows, 4)
                       \/ MulU32Ovf(AsU32(height), MulU32(rows, 4)))
        THEN [kind |-> "Panic", val |-> << 2 + 12 + 40, 0 >>]
        ELSE [kind |-> "Ok",
              val |-> << 2 + 12 + 40, MulU32(AsU32(height), MulU32(rows, 4)) >>]

\* BmpHeader::new
BmpHeader_new(header_size, data_size, checked) ==
    IF checked /\ AddU32Ovf(header_size, data_size)
    THEN [kind |-> "Panic", val |-> NoHeader]
    ELSE [kind |-> "Ok",
          val |-> [file_size |-> AddU32(header_size, data_size), creator1 |-> 0,
                   creator2 |-> 0, pixel_offset |-> header_size]]

\* BmpDibHeader::new(width: i32, height: i32)
BmpDibHeader_new(width, height, checked) ==
    LET fs == file_size(24, width, height, checked)
    IN  IF fs.kind = "Panic" THEN [kind |-> "Panic", val |-> NoDib]
        ELSE [kind |-> "Ok",
              val |-> [header_size |-> 40, width |-> width, height |-> height,
                       num_planes |-> 1, bits_per_pixel |-> 24, compress_type |-> 0,
                       data_size |-> fs.val[2],
                       hres |-> 1000, vres |-> 1000, num_colors |-> 0,
                       num_imp_colors |-> 0]]

\* Image::new(width: u32, height: u32)
Image_new(width, height, checked) ==
    LET fs == file_size(24, width, height, checked)
        h == BmpHeader_new(fs.val[1], fs.val[2], checked)
        dh == BmpDibHeader_new(AsI32(width), AsI32(height), checked)
    IN  IF \/ checked /\ MulU32Ovf(width, height)
           \/ fs.kind = "Panic" \/ h.kind = "Panic" \/ dh.kind = "Panic"
        THEN [kind |-> "Panic", image |-> NoImage]
        ELSE [kind |-> "Ok",
              image |-> [header |-> h.val, dib_header |-> dh.val,
                         color_palette |-> None,
                         width |-> width, height |-> height, padding |-> width % 4,
                         data |-> [i \in 1..MulU32(width, height) |-> px(0, 0, 0)]]]

\* (mutant) rows addressed top-down in the buffer
PixelIndex_topdown(img, x, y) == y * img.width + x

\* the two 16-bit halves of the u32 value of (height - y - 1) * width + x,
\* every step taken modulo 2^32
PixelIndexLo(img, x, y) ==
    Lo16(MulLowLow(img.height - y - 1, img.width) + Lo16(x))
PixelIndexHi(img, x, y) ==
    Lo16(Lo16(MulCross(img.height - y - 1, img.width)) + Hi16(x)
         + Hi16(MulLowLow(img.height - y - 1, img.width) + Lo16(x)))

\* the index expression shared by set_pixel and get_pixel (0-based), in u32
PixelIndex(img, x, y) == PixelIndexHi(img, x, y) * 65536 + PixelIndexLo(img, x, y)

\* a step of the index expression leaves u32: height - y - 1 below zero, or
\* the product or the sum above u32
PixelIndexOvf(img, x, y) ==
    \/ y >= img.height
    \/ MulU32Ovf(img.height - y - 1, img.width)
    \/ Lo16(MulCross(img.height - y - 1, img.width)) + Hi16(x)
         + Hi16(MulLowLow(img.height - y - 1, img.width) + Lo16(x)) >= 65536

\* self.data[index]: the index is outside the buffer
IndexOutOfBounds(img, x, y) ==
    \/ PixelIndexHi(img, x, y) > Hi16(Len(img.data))
    \/ /\ PixelIndexHi(img, x, y) = Hi16(Len(img.data))
       /\ PixelIndexLo(img, x, y) >= Lo16(Len(img.data))

\* Image::get_pixel: an overflowing index expression panics when overflow
\* checks are on, an index outside the buffer panics
get_pixel(img, x, y, checked) ==
    IF (checked /\ PixelIndexOvf(img, x, y)) \/ IndexOutOfBounds(img, x, y)
    THEN [kind |-> "Panic", val |-> px(0, 0, 0)]
    ELSE [kind |-> "Ok", val |-> img.data[PixelIndex(img, x, y) + 1]]

\* Image::set_pixel: as get_pixel, then the element is overwritten
set_pixel(img, x, y, val, checked) ==
    IF (checked /\ PixelIndexOvf(img, x, y)) \/ IndexOutOfBounds(img, x, y)
    THEN [kind |-> "Panic", image |-> img]
    ELSE [kind |-> "Ok",
          image |-> [img EXCEPT !.data =
                        [img.data EXCEPT ![PixelIndex(img, x, y) + 1] = val]]]

\* (mutant) the 12-byte header not recognised as version 2
from_dib_header_no2(dh) ==
    IF dh.header_size = 40 /\ dh.compress_type = 3 THEN "ThreeNT"
    ELSE IF dh.header_size = 40 THEN "Three"
    ELSE IF dh.header_size = 108 THEN "Four"
    ELSE IF dh.header_size = 124 THEN "Five"
    ELSE "None"

\* ImageIndex::new
ImageIndex_new(width, height) == [width |-> width, height |-> height, x |-> 0, y |-> 0]

\* Image::coordinates
coordinates(img) == ImageIndex_new(img.width, img.height)

\* Option<(u32, u32)>::None
NoPair == [some |-> FALSE, val |-> << 0, 0 >>]

\* (mutant) x not reset at the end of a row
ImageIndex_next_nowrap(it) ==
    IF it.x < it.width /\ it.y < it.height
    THEN [it |-> [it EXCEPT !.x = it.x + 1], out |-> Some(<< it.x, it.y >>)]
    ELSE [it |-> it, out |-> NoPair]

\* ImageIndex::next: the iterator after the call and the value returned
ImageIndex_next(it) ==
    IF it.x < it.width /\ it.y < it.height
    THEN [it |-> IF it.x + 1 = it.width
                 THEN [it EXCEPT !.x = 0, !.y = it.y + 1]
                 ELSE [it EXCEPT !.x = it.x + 1],
          out |-> Some(<< it.x, it.y >>)]
    ELSE [it |-> it, out |-> NoPair]

\* BmpVersion::from_dib_header
from_dib_header(dh) ==
    IF dh.header_size = 12 THEN "Two"
    ELSE IF dh.header_size = 40 /\ dh.compress_type = 3 THEN "ThreeNT"
    ELSE IF dh.header_size = 40 THEN "Three"
    ELSE IF dh.header_size = 108 THEN "Four"
    ELSE IF dh.header_size = 124 THEN "Five"
    ELSE "None"

\* (mutant) code 3 left to the version check alone
from_u32_no3(val) ==
    IF val = 1 THEN "Rle8bit"
    ELSE IF val = 2 THEN "Rle4bit"
    ELSE "Uncompressed"

\* CompressionType::from_u32
from_u32(val) ==
    IF val = 1 THEN "Rle8bit"
    ELSE IF val = 2 THEN "Rle4bit"
    ELSE IF val = 3 THEN "BitfieldsEncoding"
    ELSE "Uncompressed"

\* ---------------------------------------------------------------- BitIndex
\* bit_index(bytes, nbits, size).  BITS - nbits is a usize subtraction: with
\* nbits > BITS it aborts under overflow checks and wraps without them.  The
\* wrapped value is 2^64 + (BITS - nbits); it is kept here as BITS - nbits,
\* which agrees with it modulo 8, the only way the shifts below use it.
BitIndexPanics(nbits, checked) == checked /\ nbits > BITS

bit_index(bytes, nbits, size) ==
    [size |-> size, nbits |-> nbits, bits_left |-> BITS - nbits,
     mask |-> Shr8(255, (BITS - nbits) % 8),
     bytes |-> bytes, index |-> 0]

\* the closure of BitIndex::next: ((block & self.mask << offset) >> offset)
Extract(block, mask, offset) ==
    Shr8(BitAnd(block, Shl8(mask, offset % 8), 8), offset % 8)

\* (mutant) the remaining count never decremented
BitIndex_next_nodec(bi) ==
    LET n == bi.index \div BITS
        offset == bi.bits_left - (bi.index % BITS)
        stepped == [bi EXCEPT !.index = bi.index + bi.nbits]
    IN  IF bi.size = 0
        THEN [bi |-> stepped, out |-> NoIndex]
        ELSE [bi |-> stepped,
              out |-> IF n < Len(bi.bytes)
                      THEN Some(Extract(bi.bytes[n + 1], bi.mask, offset))
                      ELSE NoIndex]

\* BitIndex::next: the iterator after the call and the value returned
BitIndex_next(bi) ==
    LET n == bi.index \div BITS
        offset == bi.bits_left - (bi.index % BITS)
        stepped == [bi EXCEPT !.index = bi.index + bi.nbits]
    IN  IF bi.size = 0
        THEN [bi |-> stepped, out |-> NoIndex]
        ELSE [bi |-> [stepped EXCEPT !.size = bi.size - 1],
              out |-> IF n < Len(bi.bytes)
                      THEN Some(Extract(bi.bytes[n + 1], bi.mask, offset))
                      ELSE NoIndex]

\* `for i in bit_index(..)`: the values up to the first None
RECURSIVE Collect(_)
Collect(bi) ==
    LET r == BitIndex_next(bi)
    IN  IF r.out.some THEN << r.out.val >> \o Collect(r.bi) ELSE << >>

\* ----------------------------------------------------------------- cursor
\* Cursor<Vec<u8>>::read_exact of n bytes at position p: at end of data the
\* read fails and the cursor is placed at the end
read_exact(d, p, n) ==
    IF p + n <= Len(d) THEN [ok |-> TRUE, pos |-> p + n]
    ELSE [ok |-> FALSE, pos |-> Len(d)]

\* ---------------------------------------------------------------- decoder
\* (mutant) only the first signature byte compared
read_bmp_id_first(d, p) ==
    LET rd == read_exact(d, p, 2)
    IN  IF ~rd.ok THEN [kind |-> "BmpIoError", pos |-> rd.pos]
        ELSE IF d[p + 1] = 66 THEN [kind |-> "Ok", pos |-> rd.pos]
        ELSE [kind |-> "WrongMagicNumbers", pos |-> rd.pos]

\* read_bmp_id
read_bmp_id(d, p) ==
    LET rd == read_exact(d, p, 2)
    IN  IF ~rd.ok THEN [kind |-> "BmpIoError", pos |-> rd.pos]
        ELSE IF << d[p + 1], d[p + 2] >> = << 66, 77 >>
        THEN [kind |-> "Ok", pos |-> rd.pos]
        ELSE [kind |-> "WrongMagicNumbers", pos |-> rd.pos]

\* read_bmp_header: u32, u16, u16, u32
read_bmp_header(d, p) ==
    LET rd == read_exact(d, p, 12)
    IN  IF ~rd.ok THEN [kind |-> "BmpIoError", pos |-> rd.pos, header |-> NoHeader]
        ELSE [kind |-> "Ok", pos |-> rd.pos,
              header |-> [file_size |-> U32At(d, p), creator1 |-> U16At(d, p + 4),
                          creator2 |-> U16At(d, p + 6),
                          pixel_offset |-> U32At(d, p + 8)]]

\* the eleven fields read by read_bmp_dib_header
ParseDib(d, p) ==
    [header_size |-> U32At(d, p), width |-> I32At(d, p + 4),
     height |-> I32At(d, p + 8), num_planes |-> U16At(d, p + 12),
     bits_per_pixel |-> U16At(d, p + 14), compress_type |-> U32At(d, p + 16),
     data_size |-> U32At(d, p + 20), hres |-> I32At(d, p + 24),
     vres |-> I32At(d, p + 28), num_colors |-> U32At(d, p + 32),
     num_imp_colors |-> U32At(d, p + 36)]

\* (mutant) the compression check made before the depth check
ValidateDib_swapped(dh) ==
    LET v == from_dib_header(dh)
    IN  IF v = "None" THEN "UnsupportedHeader"
        ELSE IF v \notin {"Three", "Four", "Five"} THEN "UnsupportedBmpVersion"
        ELSE IF from_u32(dh.compress_type) # "Uncompressed"
        THEN "UnsupportedCompressionType"
        ELSE IF dh.bits_per_pixel \notin {1, 4, 8, 24} THEN "UnsupportedBitsPerPixel"
        ELSE "Ok"

\* the three validations of read_bmp_dib_header, in the code's order
ValidateDib(dh) ==
    LET v == from_dib_header(dh)
    IN  IF v = "None" THEN "UnsupportedHeader"
        ELSE IF v \notin {"Three", "Four", "Five"} THEN "UnsupportedBmpVersion"
        ELSE IF dh.bits_per_pixel \notin {1, 4, 8, 24} THEN "UnsupportedBitsPerPixel"
        ELSE IF from_u32(dh.compress_type) # "Uncompressed"
        THEN "UnsupportedCompressionType"
        ELSE "Ok"

\* read_bmp_dib_header
read_bmp_dib_header(d, p) ==
    LET rd == read_exact(d, p, 40)
    IN  IF ~rd.ok THEN [kind |-> "BmpIoError", pos |-> rd.pos, dib_header |-> NoDib]
        ELSE [kind |-> ValidateDib(ParseDib(d, p)), pos |-> rd.pos,
              dib_header |-> ParseDib(d, p)]

\* (mutant) the depth looked at before num_colors
NumEntries_depthfirst(dh) ==
    IF dh.bits_per_pixel \in {1, 4, 8} THEN Pow2(dh.bits_per_pixel)
    ELSE IF dh.num_colors # 0 THEN dh.num_colors
    ELSE -1

\* num_entries of read_color_palette; -1 stands for `return Ok(None)`
NumEntries(dh) ==
    IF dh.num_colors # 0 THEN dh.num_colors
    ELSE IF dh.bits_per_pixel \in {1, 4, 8} THEN Pow2(dh.bits_per_pixel)
    ELSE -1

\* one palette record at 0-based offset q: px!(px[2], px[1], px[0])
PaletteEntry(d, q) == px(d[q + 3], d[q + 2], d[q + 1])

\* read_color_palette
read_color_palette(d, p, dh) ==
    LET n == NumEntries(dh)
        start == BMP_HEADER_SIZE + dh.header_size
        got == IF start >= Len(d) THEN 0 ELSE Min(n, (Len(d) - start) \div 4)
    IN  IF n = -1 THEN [kind |-> "Ok", pos |-> p, palette |-> None]
        ELSE IF from_dib_header(dh) = "Two"
        THEN [kind |-> "UnsupportedBmpVersion", pos |-> p, palette |-> None]
        ELSE IF got < n
        THEN [kind |-> "BmpIoError", pos |-> Len(d), palette |-> None]
        ELSE [kind |-> "Ok", pos |-> start + 4 * n,
              palette |-> Some([k \in 1..n |-> PaletteEntry(d, start + 4 * (k - 1))])]

\* bytes_per_row of read_indexes: (width / (8 / bpp)).ceil()
BytesPerRow(width, bpp) == (width * bpp + 7) \div 8

\* (mutant) the remainder taken as the padding
IndexPadding_rem(bytes_per_row) == bytes_per_row % 4

\* the row padding of read_indexes
IndexPadding(bytes_per_row) ==
    IF bytes_per_row % 4 = 0 THEN 0 ELSE 4 - (bytes_per_row % 4)

\* start of row y in read_indexes
RowStart(offset, bytes_per_row, y) ==
    offset + (bytes_per_row + IndexPadding(bytes_per_row)) * y

\* the palette indices of row y: bit_index(&bmp_data[start..start + bpr], bpp, width)
RowIndexes(d, width, bpp, offset, y) ==
    LET bpr == BytesPerRow(width, bpp)
        start == RowStart(offset, bpr, y)
    IN  Collect(bit_index(SubSeq(d, start + 1, start + bpr), bpp, width))

\* whether row y of read_indexes aborts: the slice is out of range, bit_index
\* overflows, or an index is outside the palette
RowPanics(d, palette, width, bpp, offset, y, checked) ==
    LET bpr == BytesPerRow(width, bpp)
        start == RowStart(offset, bpr, y)
    IN  \/ start + bpr > Len(d)
        \/ BitIndexPanics(bpp, checked)
        \/ \E k \in DOMAIN RowIndexes(d, width, bpp, offset, y) :
              RowIndexes(d, width, bpp, offset, y)[k] >= Len(palette)

\* read_indexes; `checked` tells whether the build checks integer overflow
read_indexes(d, palette, width, height, bpp, offset, checked) ==
    IF \E y \in 0..(height - 1) : RowPanics(d, palette, width, bpp, offset, y, checked)
    THEN [kind |-> "Panic", data |-> << >>]
    ELSE [kind |-> "Ok",
          data |-> Flatten([r \in 1..height |->
                     LET ix == RowIndexes(d, width, bpp, offset, r - 1)
                     IN  [k \in 1..Len(ix) |-> palette[ix[k] + 1]]])]

\* (mutant) the three bytes taken as R, G, B
DirectPixel_rgb(d, q) == px(d[q + 1], d[q + 2], d[q + 3])

\* one pixel of read_pixels at 0-based offset q: px!(px[2], px[1], px[0])
DirectPixel(d, q) == px(d[q + 3], d[q + 2], d[q + 1])

\* (mutant) the seek over the row padding left out
DirectPos_nopad(width, offset, padding, r, x) == offset + r * (3 * width) + 3 * x

\* position of pixel x of row r in read_pixels
DirectPos(width, offset, padding, r, x) == offset + r * (3 * width + padding) + 3 * x

\* read_pixels on the cursor (d, p): the capacity height * width is a u32
\* product; the first pixel whose three bytes are not all there ends the read
read_pixels(d, p, width, height, offset, padding, checked) ==
    LET last == DirectPos(width, offset, padding, height - 1, width - 1)
    IN  IF checked /\ MulU32Ovf(height, width)
        THEN [kind |-> "Panic", pos |-> p, data |-> << >>]
        ELSE IF width > 0 /\ height > 0 /\ (offset + 3 > Len(d) \/ last + 3 > Len(d))
        THEN [kind |-> "BmpIoError", pos |-> Len(d), data |-> << >>]
        ELSE [kind |-> "Ok",
              pos |-> offset + height * (3 * width + padding),
              data |-> Flatten([r \in 1..height |->
                         [x \in 1..width |->
                            DirectPixel(d, DirectPos(width, offset, padding,
                                                     r - 1, x - 1))]])]

\* the Image assembled at the end of decode_image
Assemble(header, dib_header, color_palette, data, checked) ==
    LET width == unsigned_abs(dib_header.width)
        height == unsigned_abs(dib_header.height)
        dh == BmpDibHeader_new(AsI32(width), AsI32(height), checked)
    IN  IF dh.kind = "Panic" THEN [kind |-> "Panic", image |-> NoImage]
        ELSE [kind |-> "Ok",
              image |-> [header |-> header, dib_header |-> dh.val,
                         color_palette |-> color_palette,
                         width |-> width, height |-> height, padding |-> width % 4,
                         data |-> data]]

\* ---------------------------------------------------------------- encoder
\* one row of the pixel array: B, G, R per pixel, then width mod 4 zero bytes
EncodeRow(img, r) ==
    Flatten([x \in 1..img.width |->
               LET p == img.data[r * img.width + x]
               IN  << p.b, p.g, p.r >>])
    \o [k \in 1..(img.width % 4) |-> 0]

\* the 14-byte file header and the 40-byte DIB header written for an image:
\* row byte count floor((24 * width + 31) / 32) * 4, offset 14 + 40, file size
\* = header + pixel-data size
EncodeHeaders(img) ==
    LET data_size == img.height * (((24 * img.width + 31) \div 32) * 4)
        h == [file_size |-> 14 + 40 + data_size, creator1 |-> 0, creator2 |-> 0,
              pixel_offset |-> 14 + 40]
        dh == [header_size |-> 40, width |-> img.width, height |-> img.height,
               num_planes |-> 1, bits_per_pixel |-> 24, compress_type |-> 0,
               data_size |-> data_size, hres |-> 1000, vres |-> 1000,
               num_colors |-> 0, num_imp_colors |-> 0]
    IN  << 66, 77 >> \o U32Bytes(h.file_size) \o U16Bytes(h.creator1)
        \o U16Bytes(h.creator2) \o U32Bytes(h.pixel_offset)
        \o U32Bytes(dh.header_size) \o I32Bytes(dh.width) \o I32Bytes(dh.height)
        \o U16Bytes(dh.num_planes) \o U16Bytes(dh.bits_per_pixel)
        \o U32Bytes(dh.compress_type) \o U32Bytes(dh.data_size)
        \o I32Bytes(dh.hres) \o I32Bytes(dh.vres)
        \o U32Bytes(dh.num_colors) \o U32Bytes(dh.num_imp_colors)

\* encoder::encode_image
encode_image(img) ==
    EncodeHeaders(img) \o Flatten([r \in 1..img.height |-> EncodeRow(img, r - 1)])

\* ----------------------------------------------------------------- inputs
\* The byte sources handed to decode: files laid out field by field from a
\* record of parameters, then cut short.  kind "ramp" fills the pixel area
\* with varied bytes, "low" with bytes 0 and 1 only, "rgbw" with the rows of
\* the 2x2 picture of the tests (its first stored pixel reads as blue, see
\* can_read_image_data), "listed" with the four triples red, lime, blue, white
\* stored in that order.
RgbwArea == << 255, 0, 0,  255, 255, 255,  0, 0,  0, 0, 255,  0, 255, 0,  0, 0 >>
ListedArea == << 0, 0, 255,  0, 255, 0,  0, 0,  255, 0, 0,  255, 255, 255,  0, 0 >>

AreaByte(kind, i) ==
    IF kind = "ramp" THEN (37 + 59 * i) % 256
    ELSE IF kind = "low" THEN i % 2
    ELSE IF kind = "rgbw" THEN RgbwArea[((i - 1) % 16) + 1]
    ELSE ListedArea[((i - 1) % 16) + 1]

\* number of palette records laid out in a file
FilePaletteLen(p) ==
    IF p.nc # 0 THEN p.nc
    ELSE IF p.bpp \in {1, 4, 8} THEN Pow2(p.bpp) ELSE 0

\* bytes of one stored row, padding included
FileStride(p) ==
    LET w == unsigned_abs(p.w)
    IN  IF p.bpp = 24 THEN 3 * w + (w % 4)
        ELSE ((w * p.bpp + 31) \div 32) * 4

FileOffset(p) == BMP_HEADER_SIZE + p.hs + 4 * FilePaletteLen(p) + p.gap

MkFile(p) ==
    LET npal == FilePaletteLen(p)
        area == unsigned_abs(p.h) * FileStride(p)
        natural == BMP_HEADER_SIZE + (IF p.hs < 40 THEN 40 ELSE p.hs) + 4 * npal
        fill == IF p.gap > 0 THEN p.gap ELSE 0
    IN  p.magic \o U32Bytes(natural + fill + area) \o U16Bytes(0) \o U16Bytes(0)
        \o U32Bytes(FileOffset(p))
        \o U32Bytes(p.hs) \o I32Bytes(p.w) \o I32Bytes(p.h)
        \o U16Bytes(1) \o U16Bytes(p.bpp) \o U32Bytes(p.comp) \o U32Bytes(area)
        \o I32Bytes(1000) \o I32Bytes(1000) \o U32Bytes(p.nc) \o U32Bytes(0)
        \o [k \in 1..(IF p.hs > 40 THEN p.hs - 40 ELSE 0) |-> 0]
        \o [i \in 1..(4 * npal) |->
              LET k == (i + 3) \div 4
              IN  << (3 * k + 1) % 256, (5 * k + 2) % 256, (7 * k + 3) % 256,
                     9 >>[((i - 1) % 4) + 1]]
        \o [k \in 1..fill |-> 170]
        \o [i \in 1..area |-> AreaByte(p.kind, i)]

\* the first n bytes of d
Prefix(d, n) == SubSeq(d, 1, Min(n, Len(d)))

\* files that exercise the header checks: every magic, header size, depth and
\* compression code, whole and cut inside the headers
HeaderParams ==
    [magic : {<< 66, 77 >>, << 66, 78 >>}, hs : {12, 40, 56, 108, 124},
     w : {1}, h : {1}, bpp : {1, 2, 4, 8, 16, 24, 32}, comp : {0, 1, 2, 3, 4},
     nc : {2}, gap : {0}, kind : {"ramp"}]

HeaderFiles(p) ==
    {Prefix(MkFile(p), n) : n \in {1, 2, 30, 53, Len(MkFile(p))}}

\* files that pass the header checks: every supported depth, small signed
\* dimensions, palette counts, pixel offsets before and after the natural one,
\* whole and with up to MaxCut bytes missing at the end
PixelParams ==
    [magic : {<< 66, 77 >>}, hs : {40, 124},
     w : (-1)..MaxW, h : (-1)..MaxH, bpp : {1, 4, 8, 24}, comp : {0},
     nc : {0, 2, 16}, gap : {-4, 0, 2}, kind : {"ramp", "low"}]

PixelFiles(p) == {Prefix(MkFile(p), Len(MkFile(p)) - c) : c \in 0..MaxCut}

\* the picture of the tests (test/rgbw.bmp): 2x2, 24bpp, 70 bytes
RgbwFile ==
    MkFile([magic |-> << 66, 77 >>, hs |-> 40, w |-> 2, h |-> 2, bpp |-> 24,
            comp |-> 0, nc |-> 0, gap |-> 0, kind |-> "rgbw"])

\* the same headers over the triples (0,0,255), (0,255,0), (255,0,0),
\* (255,255,255) in file order
ListedFile ==
    MkFile([magic |-> << 66, 77 >>, hs |-> 40, w |-> 2, h |-> 2, bpp |-> 24,
            comp |-> 0, nc |-> 0, gap |-> 0, kind |-> "listed"])

\* inputs whose decoded Image is edited afterwards: 1 and 8 bpp with a full
\* palette, 24 bpp without one
EditParams ==
    [magic : {<< 66, 77 >>}, hs : {40},
     w : (-1)..MaxEditW, h : (-1)..MaxEditH, bpp : {1, 8, 24}, comp : {0},
     nc : {0}, gap : {0}, kind : {"ramp"}]

\* a 24 bpp header that declares 65536 x 65536 pixels, with no pixel bytes
HugeDim == 65536
HugeFile ==
    << 66, 77 >> \o U32Bytes(54) \o U16Bytes(0) \o U16Bytes(0) \o U32Bytes(54)
    \o U32Bytes(40) \o I32Bytes(HugeDim) \o I32Bytes(HugeDim)
    \o U16Bytes(1) \o U16Bytes(24) \o U32Bytes(0) \o U32Bytes(0)
    \o I32Bytes(1000) \o I32Bytes(1000) \o U32Bytes(0) \o U32Bytes(0)

\* the in-range coordinates passed to set_pixel along an axis of length n:
\* the first ones and the last one
SampleCoord(n) ==
    {k \in (0..(IF MaxW > MaxEditW THEN MaxW ELSE MaxEditW)) \cup {n - 1} :
       0 <= k /\ k < n}

\* pixel values written through set_pixel
Colours == {px(255, 0, 0), px(1, 2, 3)}

\* sample bytes for the bit-unpacking iterator
BitBytes == {129, 241, 90}

\* ------------------------------------------------------------------ state
VARIABLES
    bmp_data,       \* the bytes under the cursor
    pos,            \* the cursor's position
    pc,             \* where decode_image stands, or "edit" for an Image in use
    result,         \* "Running", "Ok", an error kind, or "Panic"
    header,         \* BmpHeader read by read_bmp_header
    dib_header,     \* BmpDibHeader read by read_bmp_dib_header
    color_palette,  \* Option<Vec<Pixel>> read by read_color_palette
    image,          \* the Image built by Image::new or returned by decode_image
    orig,           \* the Image that was encoded into bmp_data, if any
    nsets,          \* number of set_pixel calls made
    bi,             \* a BitIndex
    size0,          \* the size the BitIndex was created with
    outs,           \* what the calls of BitIndex::next returned, in order
    coords,         \* an ImageIndex obtained from image.coordinates()
    pairs           \* what the calls of ImageIndex::next returned, in order

vars == << bmp_data, pos, pc, result, header, dib_header, color_palette, image,
           orig, nsets, bi, size0, outs, coords, pairs >>

decoderVars == << bmp_data, pos, pc, result, header, dib_header, color_palette,
                  image, orig, nsets >>
bitVars == << bi, size0, outs >>
coordVars == << coords, pairs >>

IdleBits == bi = bit_index(<< >>, 8, 0) /\ size0 = 0 /\ outs = << >>
IdleCoords == coords = ImageIndex_new(0, 0) /\ pairs = << >>

InitDecoder ==
    /\ pos = 0 /\ result = "Running" /\ header = NoHeader /\ dib_header = NoDib
    /\ color_palette = None /\ image = NoImage /\ orig = None /\ nsets = 0
    /\ pc = "id"

Init ==
    /\ IdleBits /\ IdleCoords
    /\ \/ /\ InitDecoder
          /\ \E p \in HeaderParams : bmp_data \in HeaderFiles(p)
       \/ /\ InitDecoder
          /\ \E p \in PixelParams : bmp_data \in PixelFiles(p)
       \/ /\ InitDecoder
          /\ bmp_data \in {RgbwFile, ListedFile, HugeFile}
       \/ /\ pos = 0 /\ header = NoHeader /\ dib_header = NoDib
          /\ color_palette = None /\ orig = None /\ nsets = 0 /\ bmp_data = << >>
          /\ \E w \in 0..MaxW, h \in 0..MaxH, checked \in BOOLEAN :
                LET r == Image_new(w, h, checked)
                IN  /\ image = r.image
                    /\ pc = (IF r.kind = "Ok" THEN "edit" ELSE "done")
                    /\ result = (IF r.kind = "Ok" THEN "Running" ELSE r.kind)

\* img.set_pixel(x, y, val) with in-range coordinates
SetPixel ==
    /\ pc = "edit" /\ nsets < MaxSets
    /\ \E x \in SampleCoord(image.width), y \in SampleCoord(image.height),
          val \in Colours, checked \in BOOLEAN :
          LET r == set_pixel(image, x, y, val, checked)
          IN  /\ image' = r.image
              /\ pc' = IF r.kind = "Ok" THEN pc ELSE "done"
              /\ result' = IF r.kind = "Ok" THEN result ELSE r.kind
    /\ nsets' = nsets + 1
    /\ UNCHANGED << bmp_data, pos, header, dib_header, color_palette,
                    orig, bitVars, coordVars >>

\* the image is encoded and the bytes handed to decode_image
Save ==
    /\ pc = "edit"
    /\ bmp_data' = encode_image(image) /\ orig' = Some(image)
    /\ pos' = 0 /\ pc' = "id" /\ image' = NoImage
    /\ UNCHANGED << result, header, dib_header, color_palette, nsets, bitVars, coordVars >>

\* decode_image: read_bmp_id(bmp_data)?
ReadBmpId ==
    /\ pc = "id"
    /\ LET r == read_bmp_id(bmp_data, pos)
       IN  /\ pos' = r.pos
           /\ pc' = IF r.kind = "Ok" THEN "header" ELSE "done"
           /\ result' = IF r.kind = "Ok" THEN result ELSE r.kind
    /\ UNCHANGED << bmp_data, header, dib_header, color_palette, image, orig,
                    nsets, bitVars, coordVars >>

\* decode_image: read_bmp_header(bmp_data)?
ReadBmpHeader ==
    /\ pc = "header"
    /\ LET r == read_bmp_header(bmp_data, pos)
       IN  /\ pos' = r.pos /\ header' = r.header
           /\ pc' = IF r.kind = "Ok" THEN "dib" ELSE "done"
           /\ result' = IF r.kind = "Ok" THEN result ELSE r.kind
    /\ UNCHANGED << bmp_data, dib_header, color_palette, image, orig, nsets,
                    bitVars, coordVars >>

\* decode_image: read_bmp_dib_header(bmp_data)?
ReadBmpDibHeader ==
    /\ pc = "dib"
    /\ LET r == read_bmp_dib_header(bmp_data, pos)
       IN  /\ pos' = r.pos /\ dib_header' = r.dib_header
           /\ pc' = IF r.kind = "Ok" THEN "palette" ELSE "done"
           /\ result' = IF r.kind = "Ok" THEN result ELSE r.kind
    /\ UNCHANGED << bmp_data, header, color_palette, image, orig, nsets, bitVars, coordVars >>

\* decode_image: read_color_palette(bmp_data, &dib_header)?
ReadColorPalette ==
    /\ pc = "palette"
    /\ LET r == read_color_palette(bmp_data, pos, dib_header)
       IN  /\ pos' = r.pos /\ color_palette' = r.palette
           /\ pc' = IF r.kind = "Ok" THEN "pixels" ELSE "done"
           /\ result' = IF r.kind = "Ok" THEN result ELSE r.kind
    /\ UNCHANGED << bmp_data, header, dib_header, image, orig, nsets, bitVars, coordVars >>

\* decode_image with a palette: read_indexes(..)?, then the Image is returned
ReadIndexes ==
    /\ pc = "pixels" /\ color_palette.some
    /\ \E checked \in BOOLEAN :
         LET r == read_indexes(bmp_data, color_palette.val,
                               unsigned_abs(dib_header.width),
                               unsigned_abs(dib_header.height),
                               dib_header.bits_per_pixel, header.pixel_offset,
                               checked)
             a == Assemble(header, dib_header, color_palette, r.data, checked)
         IN  /\ result' = IF r.kind = "Ok" THEN a.kind ELSE r.kind
             /\ image' = IF r.kind = "Ok" /\ a.kind = "Ok" THEN a.image ELSE image
    /\ pc' = "done"
    /\ UNCHANGED << bmp_data, pos, header, dib_header, color_palette, orig, nsets,
                    bitVars, coordVars >>

\* decode_image without a palette: read_pixels(..)?, then the Image is returned
ReadPixels ==
    /\ pc = "pixels" /\ ~color_palette.some
    /\ \E checked \in BOOLEAN :
         LET width == unsigned_abs(dib_header.width)
             r == read_pixels(bmp_data, pos, width, unsigned_abs(dib_header.height),
                              header.pixel_offset, width % 4, checked)
             a == Assemble(header, dib_header, color_palette, r.data, checked)
         IN  /\ pos' = r.pos
             /\ result' = IF r.kind = "Ok" THEN a.kind ELSE r.kind
             /\ image' = IF r.kind = "Ok" /\ a.kind = "Ok" THEN a.image ELSE image
    /\ pc' = "done"
    /\ UNCHANGED << bmp_data, header, dib_header, color_palette, orig, nsets,
                    bitVars, coordVars >>

Next ==
    \/ SetPixel
    \/ Save
    \/ ReadBmpId
    \/ ReadBmpHeader
    \/ ReadBmpDibHeader
    \/ ReadColorPalette
    \/ ReadIndexes
    \/ ReadPixels

Spec == Init /\ [][Next]_vars

\* ------------------------------------------------- the BitIndex on its own
InitBits ==
    /\ InitDecoder /\ bmp_data = << >> /\ IdleCoords
    /\ outs = << >>
    /\ \E n \in 0..MaxBitBytes, nbits \in {1, 4, 8} :
         \E bytes \in [1..n -> BitBytes] :
            /\ size0 \in 0..MaxBitSize
            /\ bi = bit_index(bytes, nbits, size0)

\* one call of bi.next()
BitNext ==
    /\ Len(outs) < MaxBitCalls
    /\ bi' = BitIndex_next(bi).bi
    /\ outs' = Append(outs, BitIndex_next(bi).out)
    /\ UNCHANGED << size0, decoderVars, coordVars >>

NextBits == BitNext

SpecBits == InitBits /\ [][NextBits]_vars

\* ---------------------------------------------- the ImageIndex on its own
InitCoords ==
    /\ IdleBits
    /\ pos = 0 /\ result = "Running" /\ header = NoHeader /\ dib_header = NoDib
    /\ color_palette = None /\ orig = None /\ nsets = 0 /\ bmp_data = << >>
    /\ pc = "edit"
    /\ \E w \in 0..MaxCoordW, h \in 0..MaxCoordH, checked \in BOOLEAN :
          /\ Image_new(w, h, checked).kind = "Ok"
          /\ image = Image_new(w, h, checked).image
    /\ coords = coordinates(image) /\ pairs = << >>

\* let mut coords = img.coordinates()
Coordinates ==
    /\ coords' = coordinates(image) /\ pairs' = << >>
    /\ UNCHANGED << decoderVars, bitVars >>

\* one call of coords.next()
CoordNext ==
    /\ Len(pairs) < image.width * image.height + MaxExtraCalls
    /\ coords' = ImageIndex_next(coords).it
    /\ pairs' = Append(pairs, ImageIndex_next(coords).out)
    /\ UNCHANGED << decoderVars, bitVars >>

NextCoords ==
    \/ Coordinates
    \/ CoordNext

SpecCoords == InitCoords /\ [][NextCoords]_vars

\* ------------------------------------ set_pixel on new and decoded Images
InitEdit ==
    /\ IdleBits /\ IdleCoords
    /\ \/ /\ InitDecoder
          /\ \E p \in EditParams : bmp_data = MkFile(p)
       \/ /\ pos = 0 /\ header = NoHeader /\ dib_header = NoDib
          /\ color_palette = None /\ orig = None /\ nsets = 0 /\ bmp_data = << >>
          /\ \E d \in ((0..MaxEditW) \X (0..MaxEditH)) \cup {<< HugeDim, HugeDim >>},
                checked \in BOOLEAN :
                LET r == Image_new(d[1], d[2], checked)
                IN  /\ image = r.image
                    /\ pc = (IF r.kind = "Ok" THEN "edit" ELSE "done")
                    /\ result = (IF r.kind = "Ok" THEN "Running" ELSE r.kind)

\* img.set_pixel(x, y, val) on the Image decode_image returned
SetPixelDecoded ==
    /\ pc = "done" /\ result = "Ok" /\ nsets < MaxSets
    /\ \E x \in SampleCoord(image.width), y \in SampleCoord(image.height),
          val \in Colours, checked \in BOOLEAN :
          LET r == set_pixel(image, x, y, val, checked)
          IN  /\ image' = r.image
              /\ pc' = IF r.kind = "Ok" THEN pc ELSE "done"
              /\ result' = IF r.kind = "Ok" THEN result ELSE r.kind
    /\ nsets' = nsets + 1
    /\ UNCHANGED << bmp_data, pos, header, dib_header, color_palette,
                    orig, bitVars, coordVars >>

NextEdit ==
    \/ SetPixel
    \/ SetPixelDecoded
    \/ ReadBmpId
    \/ ReadBmpHeader
    \/ ReadBmpDibHeader
    \/ ReadColorPalette
    \/ ReadIndexes
    \/ ReadPixels

SpecEdit == InitEdit /\ [][NextEdit]_vars

\* ================================================================== claims
Coords(img) == (0..(img.width - 1)) \X (0..(img.height - 1))

\* get_pixel returned the pixel v
Got(v) == [kind |-> "Ok", val |-> v]

StartsWithBM == Len(bmp_data) >= 2 /\ << bmp_data[1], bmp_data[2] >> = << 66, 77 >>

Returned == pc = "done"
Accepted == pc = "done" /\ result = "Ok"

\* C1: round trip.  When decode returns for bytes that encode an Image built
\* by new(w,h) and set_pixel calls, it returns an Image of the same width and
\* height, with the same get_pixel(x,y) at every in-range (x,y), and with
\* padding = w mod 4.
C1_RoundTrip ==
    (Returned /\ orig.some) =>
        /\ result = "Ok"
        /\ image.width = orig.val.width /\ image.height = orig.val.height
        /\ \A c \in Coords(orig.val) :
              /\ get_pixel(image, c[1], c[2], TRUE).kind = "Ok"
              /\ get_pixel(image, c[1], c[2], TRUE) = get_pixel(orig.val, c[1], c[2], TRUE)
        /\ image.padding = orig.val.width % 4

C1_Witness ==
    /\ Accepted /\ orig.some /\ nsets = MaxSets
    /\ image.width = 3 /\ image.height = 2
    /\ get_pixel(image, 1, 0, TRUE) = Got(px(1, 2, 3))
    /\ get_pixel(image, 2, 1, TRUE) = Got(px(255, 0, 0))

\* C2: direct path.  In every Image returned for an input without a palette,
\* of width w and height h, get_pixel(x,y) is Pixel(r = b2, g = b1, b = b0) for
\* the bytes b0,b1,b2 at offset pixel_offset + (h-1-y)*(3w + w mod 4) + 3x, and
\* the padding is w mod 4.
C2_DirectDecode ==
    (Accepted /\ ~color_palette.some) =>
        LET w == image.width
            h == image.height
        IN  /\ dib_header.bits_per_pixel = 24
            /\ w = unsigned_abs(dib_header.width) /\ h = unsigned_abs(dib_header.height)
            /\ image.padding = w % 4
            /\ \A c \in Coords(image) :
                  LET o == header.pixel_offset + (h - 1 - c[2]) * (3 * w + (w % 4))
                           + 3 * c[1]
                  IN  get_pixel(image, c[1], c[2], TRUE)
                        = Got(px(bmp_data[o + 3], bmp_data[o + 2], bmp_data[o + 1]))

C2_Witness ==
    /\ Accepted /\ ~color_palette.some /\ ~orig.some
    /\ dib_header.width = -1 /\ image.height = 2
    /\ header.pixel_offset = 56
    /\ get_pixel(image, 0, 0, TRUE) # get_pixel(image, 0, 1, TRUE)

\* C3 as stated: decoding the 2x2, 24bpp, uncompressed file with pixel_offset
\* 54 whose triples in file order (bottom row first, each B,G,R) are (0,0,255),
\* (0,255,0), (255,0,0), (255,255,255) returns an Image with get_pixel(0,0)
\* red, get_pixel(1,0) lime, get_pixel(0,1) blue, get_pixel(1,1) white,
\* padding 2 and file_size 70.
C3_Expected ==
    /\ result = "Ok"
    /\ Len(image.data) = 4
    /\ get_pixel(image, 0, 0, TRUE) = Got(px(255, 0, 0))
    /\ get_pixel(image, 1, 0, TRUE) = Got(px(0, 255, 0))
    /\ get_pixel(image, 0, 1, TRUE) = Got(px(0, 0, 255))
    /\ get_pixel(image, 1, 1, TRUE) = Got(px(255, 255, 255))
    /\ image.padding = 2
    /\ image.header.file_size = 70

C3_AsStated == (Returned /\ bmp_data = ListedFile) => C3_Expected

\* C3 (amended): the same holds of the file whose triples in file order are
\* (255,0,0), (255,255,255), (0,0,255), (0,255,0): blue and white in the
\* bottom row, stored first, red and lime in the top row.
C3_RgbwScenario == (Returned /\ bmp_data = RgbwFile) => C3_Expected

C3_Witness ==
    /\ Accepted /\ bmp_data = RgbwFile /\ Len(bmp_data) = 70
    /\ header.pixel_offset = 54 /\ dib_header.width = 2 /\ dib_header.height = 2
    /\ dib_header.bits_per_pixel = 24 /\ dib_header.compress_type = 0
    /\ SubSeq(bmp_data, 55, 60) = << 255, 0, 0, 255, 255, 255 >>
    /\ SubSeq(bmp_data, 63, 68) = << 0, 0, 255, 0, 255, 0 >>

\* C4: indexed path.  In every Image returned for an input of 1, 4 or 8 bits
\* per pixel, with bytes_per_row = ceil(width*bpp/8) and row_padding =
\* (4 - bytes_per_row mod 4) mod 4, get_pixel(x,y) is palette[i] for i the x-th
\* bpp-bit field, most significant bit first, of the row that starts at
\* pixel_offset + (height-1-y)*(bytes_per_row+row_padding); the pixel buffer
\* has width*height entries.
C4_Field(row_start, bpp, x) ==
    (bmp_data[row_start + ((x * bpp) \div 8) + 1]
        \div Pow2(8 - bpp - ((x * bpp) % 8))) % Pow2(bpp)

C4_IndexedDecode ==
    (Accepted /\ dib_header.bits_per_pixel \in {1, 4, 8}) =>
        LET w == image.width
            h == image.height
            bpp == dib_header.bits_per_pixel
            bytes_per_row == (w * bpp + 7) \div 8
            row_padding == (4 - (bytes_per_row % 4)) % 4
        IN  /\ color_palette.some
            /\ Len(image.data) = w * h
            /\ \A c \in Coords(image) :
                  LET row_start == header.pixel_offset
                          + (h - 1 - c[2]) * (bytes_per_row + row_padding)
                  IN  get_pixel(image, c[1], c[2], TRUE)
                        = Got(color_palette.val[C4_Field(row_start, bpp, c[1]) + 1])

C4_Witness ==
    /\ Accepted /\ dib_header.bits_per_pixel = 4 /\ dib_header.num_colors = 0
    /\ image.width = 3 /\ image.height = 2
    /\ get_pixel(image, 0, 0, TRUE) # get_pixel(image, 1, 0, TRUE)
    /\ get_pixel(image, 0, 0, TRUE) # get_pixel(image, 0, 1, TRUE)

\* C5: the calls of BitIndex::next return, in order, the first
\* m = min(size, 8*len(bytes)/nbits) fields of nbits bits, most significant bit
\* first, and nothing from then on.
C5_Bit(bytes, t) == (bytes[(t \div 8) + 1] \div Pow2(7 - (t % 8))) % 2

RECURSIVE C5_Field(_, _, _, _)
C5_Field(bytes, nbits, k, j) ==
    IF j = nbits THEN 0
    ELSE C5_Bit(bytes, k * nbits + j) * Pow2(nbits - 1 - j)
         + C5_Field(bytes, nbits, k, j + 1)

C5_BitIndexSequence ==
    LET m == Min(size0, (8 * Len(bi.bytes)) \div bi.nbits)
    IN  \A k \in 1..Len(outs) :
          IF k <= m
          THEN outs[k] = Some(C5_Field(bi.bytes, bi.nbits, k - 1, 0))
          ELSE ~outs[k].some

C5_Witness ==
    /\ bi.nbits = 4 /\ bi.bytes = << 129, 241 >> /\ size0 = 6
    /\ Len(outs) = 8
    /\ outs[3] = Some(15) /\ outs[4] = Some(1) /\ ~outs[5].some /\ ~outs[8].some

\* C6: for every input of at least 2 bytes that does not start with "BM",
\* decode returns WrongMagicNumbers with the cursor right after those 2 bytes.
C6_WrongMagic ==
    (Returned /\ Len(bmp_data) >= 2 /\ ~StartsWithBM) =>
        (result = "WrongMagicNumbers" /\ pos = 2)

C6_Witness ==
    /\ Returned /\ result = "WrongMagicNumbers"
    /\ Len(bmp_data) > 54 /\ bmp_data[1] = 66 /\ pos = 2

\* the header_size, bits_per_pixel and compress_type fields as stored in the input
C_HeaderSize == U32At(bmp_data, 14)
C_Bpp == U16At(bmp_data, 28)
C_Compress == U32At(bmp_data, 30)

\* C7 as stated: every input that starts with "BM" and whose header_size field
\* is 12 fails with UnsupportedBmpVersion, whatever its length.
C7_AsStated ==
    (Returned /\ StartsWithBM /\ Len(bmp_data) >= 18 /\ C_HeaderSize = 12) =>
        result = "UnsupportedBmpVersion"

\* C7 (amended): every input of at least 54 bytes that starts with "BM" and
\* whose header_size field is 12 fails with UnsupportedBmpVersion.
C7_Version2 ==
    (Returned /\ StartsWithBM /\ Len(bmp_data) >= 54 /\ C_HeaderSize = 12) =>
        result = "UnsupportedBmpVersion"

C7_Witness ==
    /\ Returned /\ StartsWithBM /\ Len(bmp_data) >= 54 /\ C_HeaderSize = 12
    /\ result = "UnsupportedBmpVersion" /\ dib_header.bits_per_pixel = 32
    /\ dib_header.compress_type = 3

\* C8 as stated: every input that starts with "BM" and whose bits_per_pixel
\* field is 2, 16 or 32 fails with UnsupportedBitsPerPixel, for every
\* header_size and compress_type.
C8_AsStated ==
    (Returned /\ StartsWithBM /\ Len(bmp_data) >= 54 /\ C_Bpp \in {2, 16, 32}) =>
        result = "UnsupportedBitsPerPixel"

\* C8 (amended): every input of at least 54 bytes that starts with "BM", whose
\* header_size is 40, 108 or 124, not 40 together with compress_type 3, and
\* whose bits_per_pixel field is 2, 16 or 32 fails with
\* UnsupportedBitsPerPixel, for every other compress_type.
C8_BitsPerPixel ==
    (/\ Returned /\ StartsWithBM /\ Len(bmp_data) >= 54 /\ C_Bpp \in {2, 16, 32}
     /\ C_HeaderSize \in {40, 108, 124}
     /\ ~(C_HeaderSize = 40 /\ C_Compress = 3)) =>
        result = "UnsupportedBitsPerPixel"

C8_Witness ==
    /\ Returned /\ result = "UnsupportedBitsPerPixel"
    /\ dib_header.bits_per_pixel = 16 /\ dib_header.header_size = 108
    /\ dib_header.compress_type = 3

\* C9: a DIB header of size 108 or 124 with 1, 4, 8 or 24 bits per pixel
\* and compress_type 1, 2 or 3 makes decode fail with
\* UnsupportedCompressionType.
C9_Compression ==
    (/\ Returned /\ StartsWithBM /\ Len(bmp_data) >= 54
     /\ C_HeaderSize \in {108, 124} /\ C_Bpp \in {1, 4, 8, 24}
     /\ C_Compress \in {1, 2, 3}) =>
        result = "UnsupportedCompressionType"

C9_Witness ==
    /\ Returned /\ result = "UnsupportedCompressionType"
    /\ dib_header.header_size = 124 /\ dib_header.compress_type = 3
    /\ dib_header.bits_per_pixel = 24

\* C10: once the header is accepted and the palette step has succeeded, a
\* palette is there iff bits_per_pixel is 1, 4 or 8 or num_colors # 0; it has
\* num_colors entries when num_colors # 0 and 2^bits_per_pixel otherwise; entry
\* k is Pixel(r,g,b) of the record (blue, green, red, reserved) at offset
\* 14 + header_size + 4*k.
C10_PaletteRead == pc = "pixels" \/ (pc = "done" /\ result \in {"Ok", "Panic"})

C10_Palette ==
    C10_PaletteRead =>
        LET bpp == dib_header.bits_per_pixel
            nc == dib_header.num_colors
            n == IF nc # 0 THEN nc
                 ELSE IF bpp = 1 THEN 2 ELSE IF bpp = 4 THEN 16 ELSE 256
        IN  /\ color_palette.some <=> (bpp \in {1, 4, 8} \/ nc # 0)
            /\ color_palette.some =>
                  /\ Len(color_palette.val) = n
                  /\ \A k \in 0..(n - 1) :
                        LET o == 14 + dib_header.header_size + 4 * k
                        IN  color_palette.val[k + 1]
                              = px(bmp_data[o + 3], bmp_data[o + 2], bmp_data[o + 1])

C10_Witness ==
    /\ pc = "pixels" /\ dib_header.bits_per_pixel = 8 /\ dib_header.num_colors = 0
    /\ Len(color_palette.val) = 256
    /\ color_palette.val[256] = px(3, 2, 1)

\* C11: for an image of width w and height h, the calls of next() on
\* coordinates() return the w*h in-range pairs in row-major order from (0,0),
\* each once, and nothing from then on (nothing at all when w = 0 or h = 0);
\* a new call of coordinates() starts again from (0,0).
C11_Coordinates ==
    \A k \in 1..Len(pairs) :
       IF k <= image.width * image.height
       THEN pairs[k] = Some(<< (k - 1) % image.width, (k - 1) \div image.width >>)
       ELSE ~pairs[k].some

\* the whole sequence has been drawn, after an earlier one was abandoned
C11_Witness ==
    /\ image.width = 2 /\ image.height = 3 /\ Len(pairs) = 8
    /\ pairs[2] = Some(<< 1, 0 >>) /\ pairs[3] = Some(<< 0, 1 >>)
    /\ pairs[6] = Some(<< 1, 2 >>) /\ ~pairs[7].some /\ ~pairs[8].some
    /\ coords.x = 0 /\ coords.y = 3

\* the DIB header has been read and has passed the three checks
C_Validated == pc \in {"palette", "pixels"} \/ (pc = "done" /\ ValidateDib(dib_header) = "Ok")

\* C12: for every input that decode accepts, pixel_offset points past the file
\* header, the DIB header and the palette:
\* pixel_offset >= 14 + header_size + 4 * (number of palette entries).
C12_OffsetPastHeaders ==
    Accepted =>
        header.pixel_offset >= 14 + dib_header.header_size
              + 4 * (IF color_palette.some THEN Len(color_palette.val) ELSE 0)

\* the rows of an indexed image whose bytes are all in the input
C13_RowsPresent ==
    LET bpr == BytesPerRow(unsigned_abs(dib_header.width), dib_header.bits_per_pixel)
    IN  {y \in 0..(unsigned_abs(dib_header.height) - 1) :
           RowStart(header.pixel_offset, bpr, y) + bpr <= Len(bmp_data)}

\* C13: for every input whose header passes the checks, every index unpacked
\* from the pixel rows is smaller than the number of palette entries read.
C13_IndexInPalette ==
    (pc = "pixels" /\ color_palette.some /\ dib_header.bits_per_pixel \in {1, 4, 8}) =>
        \A y \in C13_RowsPresent :
           LET ix == RowIndexes(bmp_data, unsigned_abs(dib_header.width),
                                dib_header.bits_per_pixel, header.pixel_offset, y)
           IN  \A k \in 1..Len(ix) : ix[k] < Len(color_palette.val)

\* the input ends before the last pixel byte of the rows its header declares
C14_PixelBytesMissing ==
    LET w == unsigned_abs(dib_header.width)
        h == unsigned_abs(dib_header.height)
        bpp == dib_header.bits_per_pixel
        bpr == IF bpp = 24 THEN 3 * w ELSE (w * bpp + 7) \div 8
        stride == IF bpp = 24 THEN 3 * w + (w % 4) ELSE ((bpr + 3) \div 4) * 4
    IN  /\ w > 0 /\ h > 0
        /\ \/ header.pixel_offset + bpr > Len(bmp_data)
           \/ header.pixel_offset + (h - 1) * stride + bpr > Len(bmp_data)

\* C14: when the header passes the checks and pixel bytes are missing, decode
\* returns the wrapped I/O error and no Image, on the direct path (24 bpp, no
\* palette) and on the indexed path (1, 4, 8 bpp).
C14_TruncatedIsIoError ==
    (/\ Returned /\ C_Validated
     /\ \/ dib_header.bits_per_pixel \in {1, 4, 8}
        \/ (dib_header.bits_per_pixel = 24 /\ dib_header.num_colors = 0)
     /\ C14_PixelBytesMissing) =>
        (result = "BmpIoError" /\ image = NoImage)

\* decode is about to build the cursor for the first row of an indexed image
C16_CursorBuilt ==
    /\ pc = "pixels" /\ color_palette.some
    /\ unsigned_abs(dib_header.height) > 0
    /\ header.pixel_offset
         + BytesPerRow(unsigned_abs(dib_header.width), dib_header.bits_per_pixel)
         <= Len(bmp_data)

\* C16: whenever decode builds the bit-unpacking cursor its field width is 1,
\* 4 or 8, also for 24bpp headers that declare num_colors # 0.
C16_NbitsSupported == C16_CursorBuilt => dib_header.bits_per_pixel \in {1, 4, 8}

\* what a set_pixel(x, y, v) step leaves behind
C15_Frame(x, y, v) ==
    /\ get_pixel(image', x, y, TRUE) = Got(v)
    /\ \A c \in Coords(image) \ {<< x, y >>} :
          /\ get_pixel(image', c[1], c[2], TRUE).kind = "Ok"
          /\ get_pixel(image', c[1], c[2], TRUE) = get_pixel(image, c[1], c[2], TRUE)
    /\ image'.width = image.width /\ image'.height = image.height
    /\ image'.padding = image.padding
    /\ Len(image'.data) = Len(image.data)
    /\ Len(image.data) = image.width * image.height

\* (x, y) -> (height - 1 - y) * width + x is injective on in-range coordinates
C15_Injective(img) ==
    \A c \in Coords(img), d \in Coords(img) :
       PixelIndex(img, c[1], c[2]) = PixelIndex(img, d[1], d[2]) => c = d

\* C15: on an Image from new or decode, after any set_pixel calls, an in-range
\* set_pixel(x, y, v) makes get_pixel(x, y) = v, leaves every other in-range
\* pixel, the width, height, padding and buffer length (width * height) as
\* they were, and the index mapping is injective on in-range coordinates.
C15_SetPixelFrame ==
    [][ nsets' = nsets + 1 =>
           /\ result' # "Panic"
           /\ C15_Injective(image)
           /\ \A c \in Coords(image), v \in Colours :
                 image' = set_pixel(image, c[1], c[2], v, TRUE).image
                    => C15_Frame(c[1], c[2], v)
      ]_vars

====
